---- MODULE Spec2Model ----
(***************************************************************************)
(* A model of the two notebooks of the recommendation system:              *)
(*   nearest_neigbour.ipynb  item-based nearest neighbour prediction,      *)
(*                           dispatched over worker processes   (Spec)     *)
(*   latent_factors.ipynb    latent factor model trained by stochastic     *)
(*                           gradient descent, with an optional Optuna     *)
(*                           hyper-parameter search             (SpecLF)   *)
(*                                                                         *)
(* Floating point values are modelled in fixed point: a float v is the     *)
(* integer round-down of v * Scale.  Ratings stored in the utility matrix  *)
(* and in the data sets are the raw integers 1..5; NaN marks a missing     *)
(* cell.  Indices are 0-based as in the code; the ids of the records of a  *)
(* data set are 1-based.                                                   *)
(***************************************************************************)
EXTENDS Integers, Sequences, FiniteSets, TLC

\* ------------------------------------------------------------------ bounds
\* Fixed point precision: the float 1.0 is the integer Scale.
Scale == 1000
\* The longest test set.
MaxReq == 3
\* The largest config["number_processes"].
MaxProc == 2
\* The largest config["number_neighbours"].
MaxK == 2
\* The largest config["hyper_epoch"], the number of trials of a study.
MaxTrials == 2
\* The largest config["latent_factors"] and config["train_epoch"] of a run
\* without hyper-parameter optimization.
MaxFactors == 2
MaxEpochs == 2

\* ----------------------------------------------------------------- helpers
\* The not-a-number marker of a missing cell and of an undefined statistic;
\* it lies outside of the range of every modelled value.
NaN == -1000000

isnan(x) == x = NaN

\* A name that is not bound yet: of a number, of a list.
Undefined == NaN - 1

NoList == <<Undefined>>

\* config = None, what the configuration cell leaves when the load fails.
None == [none |-> TRUE]

\* The outcome of a call: the value it returns or the exception it raises.
Value(v) == [value |-> v]

Raised(e) == [raised |-> e]

IsValue(r) == "value" \in DOMAIN r

RECURSIVE SumSeq(_)
SumSeq(s) == IF s = <<>> THEN 0 ELSE Head(s) + SumSeq(Tail(s))

RECURSIVE Flatten(_)
Flatten(ss) == IF ss = <<>> THEN <<>> ELSE Head(ss) \o Flatten(Tail(ss))

Abs(x) == IF x < 0 THEN -x ELSE x

\* math.sqrt on a non-negative fixed point square: the largest k with
\* k * k <= n, found by bisection between lo (lo * lo <= n) and hi (n < hi * hi).
RECURSIVE SqrtBetween(_, _, _)
SqrtBetween(n, lo, hi) ==
    IF hi - lo <= 1 THEN lo
    ELSE LET mid == (lo + hi) \div 2
         IN  IF mid * mid <= n THEN SqrtBetween(n, mid, hi) ELSE SqrtBetween(n, lo, mid)

Sqrt(n) == SqrtBetween(n, 0, IF n < 46340 THEN n + 1 ELSE 46340)

\* np.delete: the elements of the sequence s at the positions (0-based) that
\* are not in del, in order.
RECURSIVE DeleteFrom(_, _, _)
DeleteFrom(s, del, n) ==
    IF n > Len(s) THEN <<>>
    ELSE (IF (n - 1) \in del THEN <<>> ELSE <<s[n]>>) \o DeleteFrom(s, del, n + 1)

Delete(s, del) == DeleteFrom(s, del, 1)

\* A row of the matrix as a sequence over the users 0..NU-1.
NumMovies(matrix) == Cardinality(DOMAIN matrix)

NumUsers(matrix) == Cardinality(DOMAIN matrix[0])

Row(matrix, i) == [n \in 1..NumUsers(matrix) |-> matrix[i][n - 1]]

Column(matrix, j) == [n \in 1..NumMovies(matrix) |-> matrix[n - 1][j]]

\* np.nanmean: the mean of the values that are not NaN, NaN for an empty slice.
nanmean(s) ==
    LET obs == SelectSeq(s, LAMBDA v : ~isnan(v))
    IN  IF obs = <<>> THEN NaN ELSE (Scale * SumSeq(obs)) \div Len(obs)

\* train_set.mean(axis=0)[2]: the mean rating of the train set.
MeanRating(set) ==
    (Scale * SumSeq([n \in 1..Len(set) |-> set[n][3]])) \div Len(set)

\* ------------------------------------------------------- BiasEstimator
get_biases(utility_matrix, global_average) ==
    LET users_bias == [i \in 0..(NumUsers(utility_matrix) - 1) |->
                          LET m == nanmean(Column(utility_matrix, i))
                          IN  IF isnan(m) THEN 0 ELSE m - global_average]
        movies_bias == [i \in 0..(NumMovies(utility_matrix) - 1) |->
                          LET m == nanmean(Row(utility_matrix, i))
                          IN  IF isnan(m) THEN 0 ELSE m - global_average]
    IN  <<users_bias, movies_bias>>

get_baseline_estimate(movie_id, user_id, global_average, users_bias, movies_bias) ==
    global_average + users_bias[user_id] + movies_bias[movie_id]

\* ------------------------------------------------------ SimilarityEngine
\* scipy.stats.pearsonr of two equally long sequences of raw ratings: NaN
\* when one of them is constant.
pearsonr(ax, bx) ==
    LET n   == Len(ax)
        sx  == SumSeq(ax)
        sy  == SumSeq(bx)
        sxy == SumSeq([k \in 1..n |-> ax[k] * bx[k]])
        sxx == SumSeq([k \in 1..n |-> ax[k] * ax[k]])
        syy == SumSeq([k \in 1..n |-> bx[k] * bx[k]])
        num == n * sxy - sx * sy
        va  == n * sxx - sx * sx
        vb  == n * syy - sy * sy
    IN  IF va * vb = 0 THEN NaN
        ELSE LET r == Sqrt((num * num * Scale * Scale) \div (va * vb))
             IN  IF num < 0 THEN -r ELSE r

RECURSIVE SimilaritiesFrom(_, _, _, _)
SimilaritiesFrom(i, user_id, movie_id, matrix) ==
    IF i >= NumMovies(matrix) THEN <<>>
    ELSE LET rest == SimilaritiesFrom(i + 1, user_id, movie_id, matrix)
             a    == Row(matrix, movie_id)
             b    == Row(matrix, i)
             anan == {u \in 0..(Len(a) - 1) : isnan(a[u + 1])}
             bnan == {u \in 0..(Len(b) - 1) : isnan(b[u + 1])}
             delx == anan \cup bnan
             ax   == Delete(a, delx)
             bx   == Delete(b, delx)
             corr == pearsonr(ax, bx)
         IN  IF i = movie_id \/ isnan(matrix[i][user_id]) THEN rest
             ELSE IF Len(ax) <= 1 \/ Len(bx) <= 1 THEN rest
             ELSE <<<<i, IF isnan(corr) THEN 0 ELSE corr>>>> \o rest

\* The list with the movie itself in it, as its own best neighbour.
get_similarities_with_self(user_id, movie_id, matrix) ==
    <<<<movie_id, Scale>>>> \o SimilaritiesFrom(0, user_id, movie_id, matrix)

get_similarities(user_id, movie_id, matrix) ==
    SimilaritiesFrom(0, user_id, movie_id, matrix)

\* --------------------------------------------------- NeighborhoodPredictor
\* list.sort(key=..., reverse=...): a stable sort; with reverse the keys
\* descend and equal keys keep their order.
\* The insertion of a sort that is not stable: e goes before its equals.
RECURSIVE InsertSortedUnstable(_, _, _, _)
InsertSortedUnstable(s, e, col, reverse) ==
    IF s = <<>> THEN <<e>>
    ELSE IF (IF reverse THEN Head(s)[col] <= e[col] ELSE Head(s)[col] >= e[col])
         THEN <<e>> \o s
         ELSE <<Head(s)>> \o InsertSortedUnstable(Tail(s), e, col, reverse)

RECURSIVE InsertSorted(_, _, _, _)
InsertSorted(s, e, col, reverse) ==
    IF s = <<>> THEN <<e>>
    ELSE IF (IF reverse THEN Head(s)[col] < e[col] ELSE Head(s)[col] > e[col])
         THEN <<e>> \o s
         ELSE <<Head(s)>> \o InsertSorted(Tail(s), e, col, reverse)

RECURSIVE SortBy(_, _, _)
SortBy(s, col, reverse) ==
    IF s = <<>> THEN <<>>
    ELSE InsertSorted(SortBy(SubSeq(s, 1, Len(s) - 1), col, reverse),
                      s[Len(s)], col, reverse)

\* The loop over simk: <<sum, rating>> after the neighbours from position n.
RECURSIVE Accumulate(_, _, _, _, _, _, _, _)
Accumulate(simk, n, sum, rating, matrix, userp, global_average, biases) ==
    IF n > Len(simk) THEN <<sum, rating>>
    ELSE LET m == simk[n][1]
             s == simk[n][2]
         IN  IF isnan(s)
             THEN Accumulate(simk, n + 1, sum, rating, matrix, userp, global_average, biases)
             ELSE Accumulate(simk, n + 1, sum + s,
                     rating + s * (matrix[m][userp] * Scale
                         - get_baseline_estimate(m, userp, global_average, biases[1], biases[2])),
                     matrix, userp, global_average, biases)

\* sim.sort(key=operator.itemgetter(1), reverse=True); simk = sim[0:knn]
Neighbours(userp, moviep, matrix, knn) ==
    LET sim == SortBy(get_similarities(userp, moviep, matrix), 2, TRUE)
    IN  SubSeq(sim, 1, IF knn < Len(sim) THEN knn ELSE Len(sim))

\* The prediction with the global average alone where the sum is zero.
PredictRatingGlobalFallback(matrix, row, knn, global_average, users_bias, movies_bias) ==
    LET userp  == row[1] - 1
        moviep == row[2] - 1
        simk   == Neighbours(userp, moviep, matrix, knn)
        acc    == Accumulate(simk, 1, 0, 0, matrix, userp, global_average,
                             <<users_bias, movies_bias>>)
        base   == get_baseline_estimate(moviep, userp, global_average, users_bias, movies_bias)
    IN  IF acc[1] = 0 THEN global_average ELSE base + (acc[2] \div acc[1])

\* One iteration of the loop of predict_nearestneighbor_mp: the rating
\* predicted for the record row = (user id, movie id, rating).
PredictRating(matrix, row, knn, global_average, users_bias, movies_bias) ==
    LET userp  == row[1] - 1
        moviep == row[2] - 1
        simk   == Neighbours(userp, moviep, matrix, knn)
        acc    == Accumulate(simk, 1, 0, 0, matrix, userp, global_average,
                             <<users_bias, movies_bias>>)
        base   == get_baseline_estimate(moviep, userp, global_average, users_bias, movies_bias)
    IN  IF acc[1] = 0 THEN base ELSE base + (acc[2] \div acc[1])

\* -------------------------------------------------------------- Evaluator
\* The sum of the squared errors over the first n entries.
SquaredErrors(expected, results, n) ==
    SumSeq([k \in 1..n |->
               (expected[k] * Scale - results[k]) * (expected[k] * Scale - results[k])])

\* calculate_RMSE without its assertion: the error over the common prefix.
calculate_RMSE_unchecked(results, prediction_set) ==
    LET expected == [n \in 1..Len(prediction_set) |-> prediction_set[n][3]]
        n == IF Len(results) < Len(expected) THEN Len(results) ELSE Len(expected)
    IN  IF n = 0 THEN Raised("ValueError")
        ELSE Value(Sqrt(SquaredErrors(expected, results, n) \div n))

\* calculate_RMSE: "AssertionError" when the lengths differ; "ValueError"
\* from mean_squared_error, which takes no empty arrays.
calculate_RMSE(results, prediction_set) ==
    LET expected == [n \in 1..Len(prediction_set) |-> prediction_set[n][3]]
    IN  IF Len(expected) # Len(results) THEN Raised("AssertionError")
        ELSE IF Len(expected) = 0 THEN Raised("ValueError")
        ELSE Value(Sqrt(SquaredErrors(expected, results, Len(results)) \div Len(results)))

\* ------------------------------------------------------ ParallelDispatcher
\* np.array_split(ary, n): n contiguous chunks, the first len % n of them one
\* longer than the others.
array_split_floor(ary, n) ==
    LET each == Len(ary) \div n
    IN  [i \in 1..n |-> SubSeq(ary, (i - 1) * each + 1, i * each)]

array_split(ary, n) ==
    LET each   == Len(ary) \div n
        extras == Len(ary) % n
        start(i) == i * each + (IF i < extras THEN i ELSE extras)
    IN  [i \in 1..n |-> SubSeq(ary, start(i - 1) + 1, start(i))]

\* return_dict[pid] = result on the managed dictionary, kept as the sequence
\* of its items <<key, value>> in insertion order.
SetItemKeyZero(dict, key, value) ==
    IF \E n \in 1..Len(dict) : dict[n][1] = 0
    THEN [n \in 1..Len(dict) |-> IF dict[n][1] = 0 THEN <<0, value>> ELSE dict[n]]
    ELSE Append(dict, <<0, value>>)

SetItem(dict, key, value) ==
    IF \E n \in 1..Len(dict) : dict[n][1] = key
    THEN [n \in 1..Len(dict) |-> IF dict[n][1] = key THEN <<key, value>> ELSE dict[n]]
    ELSE Append(dict, <<key, value>>)

Keys(dict) == {dict[n][1] : n \in 1..Len(dict)}

\* The merge of __main__: the items sorted by partition id, their values
\* flattened, the rating of every (index, rating) pair.
MergeResultsUnsorted(dict) ==
    LET pr2 == [n \in 1..Len(dict) |-> dict[n][2]]
        flattened_list == Flatten(pr2)
    IN  [n \in 1..Len(flattened_list) |-> flattened_list[n][2]]

MergeResults(dict) ==
    LET pr1 == SortBy(dict, 1, FALSE)
        pr2 == [n \in 1..Len(pr1) |-> pr1[n][2]]
        flattened_list == Flatten(pr2)
    IN  [n \in 1..Len(flattened_list) |-> flattened_list[n][2]]

\* Process.join returns once the process has terminated, however it did.
JoinReturnsAlways(state) == TRUE

JoinReturns(state) == state \in {"exited", "crashed"}

\* ---------------------------------------------------- LatentFactorTrainer
\* Q is kept by rows (q[i] is Q[i, :]) and P by columns (p[j] is P[:, j]),
\* each a sequence over the latent factors.
RECURSIVE DotFrom(_, _, _)
DotFrom(a, b, f) == IF f > Len(a) THEN 0 ELSE a[f] * b[f] + DotFrom(a, b, f + 1)

dot(a, b) == DotFrom(a, b, 1) \div Scale

predict(p, q, i, j, movies_bias, users_bias, global_average) ==
    global_average + movies_bias[i] + users_bias[j] + dot(q[i], p[j])

\* b + alpha * (difference - regularization * b)
UpdateBias(b, difference, alpha, regularization) ==
    b + (alpha * (difference - (regularization * b) \div Scale)) \div Scale

\* v + alpha * (difference * w - regularization * v), from factor f on
RECURSIVE UpdateFrom(_, _, _, _, _, _)
UpdateFrom(v, w, difference, alpha, regularization, f) ==
    IF f > Len(v) THEN <<>>
    ELSE <<v[f] + (alpha * ((difference * w[f]) \div Scale - (regularization * v[f]) \div Scale))
                  \div Scale>>
         \o UpdateFrom(v, w, difference, alpha, regularization, f + 1)

\* The residual of the cell (i, j): the rating minus its prediction.
Residual(st, i, j, g) ==
    g.utility_matrix[i][j] * Scale
        - predict(st.p, st.q, i, j, st.movies_bias, st.users_bias, g.global_average)

\* A step that also shrinks, by the regularization, the rows and the biases
\* of the other movies and users.
SgdStepDecayAll(st, i, j, alpha, regularization, g) ==
    LET difference == Residual(st, i, j, g)
        qi == UpdateFrom(st.q[i], st.p[j], difference, alpha, regularization, 1)
        pj == UpdateFrom(st.p[j], qi, difference, alpha, regularization, 1)
    IN  [movies_bias |-> [m \in DOMAIN st.movies_bias |->
                             UpdateBias(st.movies_bias[m], IF m = i THEN difference ELSE 0,
                                        alpha, regularization)],
         users_bias  |-> [u \in DOMAIN st.users_bias |->
                             UpdateBias(st.users_bias[u], IF u = j THEN difference ELSE 0,
                                        alpha, regularization)],
         q |-> [m \in DOMAIN st.q |->
                   IF m = i THEN qi
                   ELSE UpdateFrom(st.q[m], st.q[m], 0, alpha, regularization, 1)],
         p |-> [u \in DOMAIN st.p |->
                   IF u = j THEN pj
                   ELSE UpdateFrom(st.p[u], st.p[u], 0, alpha, regularization, 1)]]

\* A step whose update of P[:, j] reads the row Q[i, :] of before the step.
SgdStepSimultaneous(st, i, j, alpha, regularization, g) ==
    LET difference == Residual(st, i, j, g)
    IN  [movies_bias |-> [st.movies_bias EXCEPT
                             ![i] = UpdateBias(@, difference, alpha, regularization)],
         users_bias  |-> [st.users_bias EXCEPT
                             ![j] = UpdateBias(@, difference, alpha, regularization)],
         q |-> [st.q EXCEPT
                   ![i] = UpdateFrom(st.q[i], st.p[j], difference, alpha, regularization, 1)],
         p |-> [st.p EXCEPT
                   ![j] = UpdateFrom(st.p[j], st.q[i], difference, alpha, regularization, 1)]]

\* The body of the loops of build_latent_factors for an observed cell (i, j);
\* st holds the contents of movies_bias, users_bias, q and p.
SgdStep(st, i, j, alpha, regularization, g) ==
    LET difference == Residual(st, i, j, g)
        qi == UpdateFrom(st.q[i], st.p[j], difference, alpha, regularization, 1)
        pj == UpdateFrom(st.p[j], qi, difference, alpha, regularization, 1)
    IN  [movies_bias |-> [st.movies_bias EXCEPT
                             ![i] = UpdateBias(@, difference, alpha, regularization)],
         users_bias  |-> [st.users_bias EXCEPT
                             ![j] = UpdateBias(@, difference, alpha, regularization)],
         q |-> [st.q EXCEPT ![i] = qi],
         p |-> [st.p EXCEPT ![j] = pj]]

\* One epoch from cell c on, the cells counted movie by movie, user by user.
RECURSIVE Sweep(_, _, _, _, _)
Sweep(st, c, alpha, regularization, g) ==
    IF c >= g.number_movies * g.number_users THEN st
    ELSE LET i == c \div g.number_users
             j == c % g.number_users
         IN  Sweep(IF isnan(g.utility_matrix[i][j]) THEN st
                   ELSE SgdStep(st, i, j, alpha, regularization, g),
                   c + 1, alpha, regularization, g)

\* n epochs, the first half of them before the second; the comparison holds
\* always and makes TLC evaluate the first half before it goes on.
RECURSIVE Epochs(_, _, _, _, _)
Epochs(st, n, alpha, regularization, g) ==
    IF n = 0 THEN st
    ELSE IF n = 1 THEN Sweep(st, 0, alpha, regularization, g)
    ELSE LET half == Epochs(st, n \div 2, alpha, regularization, g)
         IN  IF half = half THEN Epochs(half, n - n \div 2, alpha, regularization, g)
             ELSE st

\* np.random.rand(rows, cols): values in [0, 1), one draw per seed; the
\* matrix is kept as rows (0-based) of sequences.
RandomMatrix(seed, rows, cols, salt) ==
    [r \in 0..(rows - 1) |->
        [c \in 1..cols |-> ((seed + 1) * (7 * r + 3 * c + salt) * 137) % Scale]]

Seeds == {0, 1}

InitialQ(seed, g, latent_factors) == RandomMatrix(seed, g.number_movies, latent_factors, 1)

InitialP(seed, g, latent_factors) == RandomMatrix(seed, g.number_users, latent_factors, 5)

\* build_latent_factors on the dictionaries movies_bias and users_bias: q, p
\* and what the two dictionaries hold when it returns.
build_latent_factors(latent_factors, train_epoch, alpha, regularization, movies_bias, users_bias, seed, g) ==
    Epochs([movies_bias |-> movies_bias, users_bias |-> users_bias,
            q |-> InitialQ(seed, g, latent_factors),
            p |-> InitialP(seed, g, latent_factors)],
           train_epoch, alpha, regularization, g)

predict_results(q, p, movies_bias, users_bias, prediction_set, global_average) ==
    [index \in 1..Len(prediction_set) |->
        predict(p, q, prediction_set[index][2] - 1, prediction_set[index][1] - 1,
                movies_bias, users_bias, global_average)]

\* The heap maps the addresses in use to the dictionaries at them.  A new
\* object gets an address that is not in use; the model takes the one kept
\* for the frame that creates it: frame 0 is the module, frame 1 __main__,
\* frame 1 + t the call of objective for trial t, each with two addresses.
Address(frame, n) == 2 * frame + n

\* dict.copy() on the object at ref, the copy put at the address new: the
\* heap with the new object and the reference to it.
DictCopyAlias(heap, ref, new) == <<heap, ref>>

DictCopy(heap, ref, new) ==
    <<[a \in (DOMAIN heap) \cup {new} |-> IF a = new THEN heap[ref] ELSE heap[a]], new>>

\* d[k] = v for every key of the dictionary at ref, as build_latent_factors
\* does with the dictionaries it is given: the object itself is written.
WriteDictToCopy(heap, ref, contents) == heap

WriteDict(heap, ref, contents) == [heap EXCEPT ![ref] = contents]

\* ---------------------------------------------------- HyperparameterSearch
\* trial.suggest_int(name, low, high, step) and trial.suggest_float(name, low,
\* high): the values a trial can be given.
suggest_int(low, high, step) == {low + step * n : n \in 0..((high - low) \div step)}

suggest_float(low, high) == low..high

SuggestLatentFactors == suggest_int(7, 18, 1)

SuggestTrainEpoch == suggest_int(200, 600, 50)

SuggestAlpha == suggest_float(Scale \div 100, (2 * Scale) \div 100)

SuggestRegularization == suggest_float((45 * Scale) \div 1000, (850 * Scale) \div 1000)

\* The value of a range that the model lets a trial draw: its least one (the
\* cost of a training grows with the factors and the epochs).
Drawn(S) == {v \in S : \A w \in S : v <= w}

\* config[key]: TypeError on None, KeyError on a missing key.
GetItem(config, key) ==
    IF config = None THEN Raised("TypeError")
    ELSE IF key \notin DOMAIN config THEN Raised("KeyError")
    ELSE Value(config[key])

\* ------------------------------------------------------------------ inputs
\* What MatrixMaker.make_matrices returns: utility matrices of 3 movies by 3
\* users, the train set of each (one record per observed cell) and test sets.
N == NaN

UtilityMatrices ==
    { [i \in 0..2 |-> [j \in 0..2 |-> <<<<4, 3, 5>>, <<2, N, 4>>, <<3, 5, 1>>>>[i + 1][j + 1]]],
      [i \in 0..2 |-> [j \in 0..2 |-> <<<<5, 3, N>>, <<4, 4, 4>>, <<N, 2, 5>>>>[i + 1][j + 1]]] }

RECURSIVE RecordsFrom(_, _)
RecordsFrom(matrix, c) ==
    LET nu == NumUsers(matrix)
        i  == c \div nu
        j  == c % nu
    IN  IF c >= NumMovies(matrix) * nu THEN <<>>
        ELSE (IF isnan(matrix[i][j]) THEN <<>> ELSE <<<<j + 1, i + 1, matrix[i][j]>>>>)
             \o RecordsFrom(matrix, c + 1)

TrainSetOf(matrix) == RecordsFrom(matrix, 0)

\* Records (user id, movie id, rating) of the test split.
TestRecords == {<<2, 2, 4>>, <<1, 3, 2>>}

RECURSIVE SeqsUpTo(_, _)
SeqsUpTo(S, n) ==
    IF n = 0 THEN {<<>>}
    ELSE LET shorter == SeqsUpTo(S, n - 1)
         IN  shorter \cup {Append(s, e) : s \in shorter, e \in S}

TestSets == SeqsUpTo(TestRecords, MaxReq) \ {<<>>}

\* The contents of config.json as nearest_neigbour.ipynb reads it: None when
\* the file cannot be loaded.
ConfigFilesNN ==
    {None}
    \cup {[number_processes |-> n, number_neighbours |-> k] : n \in 1..MaxProc, k \in 1..MaxK}
    \cup {[number_processes |-> n] : n \in {MaxProc}}
    \cup {[number_neighbours |-> k] : k \in {MaxK}}

VARIABLES
    pc,              \* where __main__ (with the cells before it) stands
    error,           \* the exception that ended the run, "" when none
    clock,           \* time.time()
    config_file,     \* config.json
    config,
    utility_matrix, train_set, test_set,
    global_average, users_bias, movies_bias,
    num_processes, num_neighbours,
    start_time, total_time,
    chunks, return_dict,
    wstate,          \* per started process: running, stored, exited, crashed
    windex,          \* per process: the index of its loop
    wresult,         \* per process: its local result list
    joined,          \* how many processes __main__ has joined
    results, rmse,
    log,             \* the records logger.save was called with
    \* latent_factors.ipynb; there users_bias and movies_bias of __main__ are
    \* references to dictionaries of the heap, as init_users_bias and
    \* init_movies_bias are
    hyper_optimization, hyper_epoch,
    number_users, number_movies,
    validation_set,
    heap,            \* the dictionaries, by their addresses
    init_users_bias, init_movies_bias,
    latent_factors, train_epoch, alpha, regularization,
    q, p,
    epoch, cell,     \* the loops of build_latent_factors in __main__: the epoch e
                     \* and the cell i * number_users + j
    updates,         \* history: the cells <<e, i, j>> of the iterations of these
                     \* loops that ran the four updates, in their order
    trials           \* the trials of the study, in the order they were started

vars == <<pc, error, clock, config_file, config, utility_matrix, train_set, test_set,
          global_average, users_bias, movies_bias, num_processes, num_neighbours,
          start_time, total_time, chunks, return_dict, wstate, windex, wresult,
          joined, results, rmse, log, hyper_optimization, hyper_epoch, number_users,
          number_movies, validation_set, heap, init_users_bias, init_movies_bias,
          latent_factors, train_epoch, alpha, regularization, q, p, epoch, cell, updates,
            trials>>

\* What only latent_factors.ipynb has.
lfVars == <<hyper_optimization, hyper_epoch, number_users, number_movies, validation_set,
            heap, init_users_bias, init_movies_bias, latent_factors, train_epoch, alpha,
            regularization, q, p, epoch, cell, updates,
            trials>>

\* What only nearest_neigbour.ipynb has.
nnVars == <<num_processes, num_neighbours, chunks, return_dict, wstate, windex, wresult,
            joined>>

\* The names of latent_factors.ipynb before the notebook binds them.
UnboundLF ==
    /\ hyper_optimization = FALSE
    /\ hyper_epoch = Undefined
    /\ number_users = Undefined
    /\ number_movies = Undefined
    /\ heap = <<>>
    /\ init_users_bias = Undefined
    /\ init_movies_bias = Undefined
    /\ latent_factors = Undefined
    /\ train_epoch = Undefined
    /\ alpha = Undefined
    /\ regularization = Undefined
    /\ q = <<>>
    /\ p = <<>>
    /\ epoch = Undefined
    /\ cell = Undefined
    /\ updates = <<>>
    /\ trials = <<>>

dataVars == <<config_file, utility_matrix, train_set, test_set>>

workerVars == <<wstate, windex, wresult>>

Init ==
    /\ pc = "config"
    /\ error = ""
    /\ clock = 0
    /\ config_file \in ConfigFilesNN
    /\ config = None
    /\ utility_matrix \in UtilityMatrices
    /\ train_set = TrainSetOf(utility_matrix)
    /\ test_set \in TestSets
    /\ global_average = Undefined
    /\ users_bias = <<>>
    /\ movies_bias = <<>>
    /\ num_processes = Undefined
    /\ num_neighbours = Undefined
    /\ start_time = Undefined
    /\ total_time = Undefined
    /\ chunks = <<>>
    /\ return_dict = <<>>
    /\ wstate = <<>>
    /\ windex = <<>>
    /\ wresult = <<>>
    /\ joined = 0
    /\ results = NoList
    /\ rmse = Undefined
    /\ log = <<>>
    /\ validation_set = <<>>
    /\ UnboundLF

Tick == clock' = clock + 1

Raise(e) == pc' = "error" /\ error' = e

\* The configuration cell: a failed load is printed and leaves config = None.
LoadConfig ==
    /\ pc = "config"
    /\ config' = config_file
    /\ pc' = "main"
    /\ Tick
    /\ UNCHANGED lfVars
    /\ UNCHANGED <<error, dataVars, global_average, users_bias, movies_bias,
                   num_processes, num_neighbours, start_time, total_time, chunks,
                   return_dict, workerVars, joined, results, rmse, log>>

\* num_processes = config["number_processes"]; num_neighbours = ...
ReadConfig ==
    /\ pc = "main"
    /\ LET np == GetItem(config, "number_processes")
           nn == GetItem(config, "number_neighbours")
       IN  IF ~IsValue(np)
           THEN Raise(np.raised) /\ UNCHANGED <<num_processes, num_neighbours>>
           ELSE IF ~IsValue(nn)
           THEN Raise(nn.raised) /\ num_processes' = np.value /\ UNCHANGED num_neighbours
           ELSE /\ num_processes' = np.value
                /\ num_neighbours' = nn.value
                /\ pc' = "biases"
                /\ UNCHANGED error
    /\ Tick
    /\ UNCHANGED lfVars
    /\ UNCHANGED <<config, dataVars, global_average, users_bias, movies_bias,
                   start_time, total_time, chunks, return_dict, workerVars, joined,
                   results, rmse, log>>

\* global_average = train_set.mean(axis=0)[2]; get_biases(...)
ComputeBiases ==
    /\ pc = "biases"
    /\ global_average' = MeanRating(train_set)
    /\ users_bias' = get_biases(utility_matrix, global_average')[1]
    /\ movies_bias' = get_biases(utility_matrix, global_average')[2]
    /\ pc' = "split"
    /\ Tick
    /\ UNCHANGED lfVars
    /\ UNCHANGED <<error, config, dataVars, num_processes, num_neighbours, start_time,
                   total_time, chunks, return_dict, workerVars, joined, results, rmse, log>>

\* start_time, np.array_split, the manager's dictionary, processes = []
Split ==
    /\ pc = "split"
    /\ start_time' = clock
    /\ chunks' = array_split(test_set, num_processes)
    /\ return_dict' = <<>>
    /\ pc' = "spawn"
    /\ Tick
    /\ UNCHANGED lfVars
    /\ UNCHANGED <<error, config, dataVars, global_average, users_bias, movies_bias,
                   num_processes, num_neighbours, total_time, workerVars, joined,
                   results, rmse, log>>

\* One iteration of the loop creating and starting the processes: process i
\* (0-based) is given chunks[i] and its own id.
StartProcess ==
    /\ pc = "spawn"
    /\ wstate' = Append(wstate, "running")
    /\ windex' = Append(windex, 0)
    /\ wresult' = Append(wresult, <<>>)
    /\ pc' = IF Len(wstate') = num_processes THEN "join" ELSE "spawn"
    /\ Tick
    /\ UNCHANGED lfVars
    /\ UNCHANGED <<error, config, dataVars, global_average, users_bias, movies_bias,
                   num_processes, num_neighbours, start_time, total_time, chunks,
                   return_dict, joined, results, rmse, log>>

\* One iteration of the loop joining the processes in the order they started.
Join ==
    /\ pc = "join"
    /\ JoinReturns(wstate[joined + 1])
    /\ joined' = joined + 1
    /\ pc' = IF joined' = num_processes THEN "merge" ELSE "join"
    /\ Tick
    /\ UNCHANGED lfVars
    /\ UNCHANGED <<error, config, dataVars, global_average, users_bias, movies_bias,
                   num_processes, num_neighbours, start_time, total_time, chunks,
                   return_dict, workerVars, results, rmse, log>>

\* Retrieve the results from the processes; total_time.
Merge ==
    /\ pc = "merge"
    /\ results' = MergeResults(return_dict)
    /\ total_time' = clock - start_time
    /\ pc' = "rmse"
    /\ Tick
    /\ UNCHANGED lfVars
    /\ UNCHANGED <<error, config, dataVars, global_average, users_bias, movies_bias,
                   num_processes, num_neighbours, start_time, chunks, return_dict,
                   workerVars, joined, rmse, log>>

\* rmse = calculate_RMSE(results, test_set)
ComputeRMSE ==
    /\ pc = "rmse"
    /\ LET r == calculate_RMSE(results, test_set)
       IN  IF IsValue(r)
           THEN rmse' = r.value /\ pc' = "save" /\ UNCHANGED error
           ELSE Raise(r.raised) /\ UNCHANGED rmse
    /\ Tick
    /\ UNCHANGED lfVars
    /\ UNCHANGED <<config, dataVars, global_average, users_bias, movies_bias,
                   num_processes, num_neighbours, start_time, total_time, chunks,
                   return_dict, workerVars, joined, results, log>>

\* logger.save(total_time, rmse)
Save ==
    /\ pc = "save"
    /\ log' = Append(log, <<total_time, rmse>>)
    /\ pc' = "done"
    /\ Tick
    /\ UNCHANGED lfVars
    /\ UNCHANGED <<error, config, dataVars, global_average, users_bias, movies_bias,
                   num_processes, num_neighbours, start_time, total_time, chunks,
                   return_dict, workerVars, joined, results, rmse>>

\* ---- predict_nearestneighbor_mp in the process with id pid (0-based);
\* wstate, windex, wresult and chunks are sequences, the entry of pid at pid + 1.
Started == {n - 1 : n \in 1..Len(wstate)}

\* One iteration of the loop over the chunk of the process.
WorkerPredict(pid) ==
    /\ wstate[pid + 1] = "running"
    /\ windex[pid + 1] < Len(chunks[pid + 1])
    /\ LET index  == windex[pid + 1]
           rating == PredictRating(utility_matrix, chunks[pid + 1][index + 1],
                                   num_neighbours, global_average, users_bias, movies_bias)
       IN  /\ wresult' = [wresult EXCEPT ![pid + 1] = Append(@, <<index + 1, rating>>)]
           /\ windex' = [windex EXCEPT ![pid + 1] = index + 1]
    /\ Tick
    /\ UNCHANGED lfVars
    /\ UNCHANGED <<pc, error, config, dataVars, global_average, users_bias, movies_bias,
                   num_processes, num_neighbours, start_time, total_time, chunks,
                   return_dict, wstate, joined, results, rmse, log>>

\* return_dict[pid] = result
WorkerStore(pid) ==
    /\ wstate[pid + 1] = "running"
    /\ windex[pid + 1] = Len(chunks[pid + 1])
    /\ return_dict' = SetItem(return_dict, pid, wresult[pid + 1])
    /\ wstate' = [wstate EXCEPT ![pid + 1] = "stored"]
    /\ Tick
    /\ UNCHANGED lfVars
    /\ UNCHANGED <<pc, error, config, dataVars, global_average, users_bias, movies_bias,
                   num_processes, num_neighbours, start_time, total_time, chunks,
                   windex, wresult, joined, results, rmse, log>>

\* print("finished job in process ...") and the end of the process
WorkerExit(pid) ==
    /\ wstate[pid + 1] = "stored"
    /\ wstate' = [wstate EXCEPT ![pid + 1] = "exited"]
    /\ Tick
    /\ UNCHANGED lfVars
    /\ UNCHANGED <<pc, error, config, dataVars, global_average, users_bias, movies_bias,
                   num_processes, num_neighbours, start_time, total_time, chunks,
                   return_dict, windex, wresult, joined, results, rmse, log>>

\* The process terminates abnormally (an exception, a signal) before it has
\* stored its result.
WorkerCrash(pid) ==
    /\ wstate[pid + 1] = "running"
    /\ wstate' = [wstate EXCEPT ![pid + 1] = "crashed"]
    /\ Tick
    /\ UNCHANGED lfVars
    /\ UNCHANGED <<pc, error, config, dataVars, global_average, users_bias, movies_bias,
                   num_processes, num_neighbours, start_time, total_time, chunks,
                   return_dict, windex, wresult, joined, results, rmse, log>>

PredictStep == \E pid \in Started : WorkerPredict(pid)

StoreStep == \E pid \in Started : WorkerStore(pid)

ExitStep == \E pid \in Started : WorkerExit(pid)

CrashStep == \E pid \in Started : WorkerCrash(pid)

Next ==
    \/ LoadConfig
    \/ ReadConfig
    \/ ComputeBiases
    \/ Split
    \/ StartProcess
    \/ Join
    \/ Merge
    \/ ComputeRMSE
    \/ Save
    \/ PredictStep
    \/ StoreStep
    \/ ExitStep
    \/ CrashStep

Spec == Init /\ [][Next]_vars

\* ------------------------------------------------- latent_factors.ipynb
\* The data MatrixMaker hands to latent_factors.ipynb: movies by rows, users
\* by columns, every movie and every user with a rating of the train split.
UtilityMatricesLF ==
    { [i \in 0..1 |-> [j \in 0..1 |-> <<<<5, 3>>, <<N, 2>>>>[i + 1][j + 1]]] }

TestRecordsLF == <<<<1, 1, 5>>, <<2, 2, 3>>>>

\* The test splits: what TestRecordsLF starts with.
TestSetsLF == {SubSeq(TestRecordsLF, 1, n) : n \in 1..Len(TestRecordsLF)}

ValidationSets == {<<<<1, 2, 4>>, <<2, 1, 2>>>>}

\* config.json of a run without hyper-parameter optimization.
TrainConfig(factors, epochs) ==
    [hyper_optimization |-> FALSE, hyper_epoch |-> 1,
     latent_factors |-> factors, train_epoch |-> epochs,
     alpha |-> Scale \div 100, regularization_factor |-> (45 * Scale) \div 1000]

\* config.json of a run with it.
SearchConfig(n_trials) == [TrainConfig(1, 1) EXCEPT !.hyper_optimization = TRUE,
                                                    !.hyper_epoch = n_trials]

Without(cfg, key) == [k \in (DOMAIN cfg) \ {key} |-> cfg[k]]

WellFormedLF ==
    {TrainConfig(factors, epochs) : factors \in 1..MaxFactors, epochs \in 1..MaxEpochs}
    \cup {SearchConfig(n_trials) : n_trials \in 1..MaxTrials}

\* The contents of config.json as latent_factors.ipynb reads it: None when
\* the file cannot be loaded.
ConfigFilesLF ==
    {None}
    \cup WellFormedLF
    \cup {Without(TrainConfig(1, 1), key) : key \in DOMAIN TrainConfig(1, 1)}
    \cup {Without(SearchConfig(1), "hyper_epoch")}

InitLF ==
    /\ pc = "config"
    /\ error = ""
    /\ clock = 0
    /\ config_file \in ConfigFilesLF
    /\ config = None
    /\ utility_matrix \in UtilityMatricesLF
    /\ train_set = TrainSetOf(utility_matrix)
    /\ test_set \in TestSetsLF
    /\ validation_set \in ValidationSets
    /\ global_average = Undefined
    /\ users_bias = Undefined
    /\ movies_bias = Undefined
    /\ start_time = Undefined
    /\ total_time = Undefined
    /\ results = NoList
    /\ rmse = Undefined
    /\ log = <<>>
    /\ UnboundLF
    /\ num_processes = Undefined
    /\ num_neighbours = Undefined
    /\ chunks = <<>>
    /\ return_dict = <<>>
    /\ wstate = <<>>
    /\ windex = <<>>
    /\ wresult = <<>>
    /\ joined = 0

inputVars == <<config_file, utility_matrix, train_set, test_set, validation_set>>

biasVars == <<heap, init_users_bias, init_movies_bias, users_bias, movies_bias>>

paramVars == <<latent_factors, train_epoch, alpha, regularization>>

loopVars == <<q, p, epoch, cell, updates>>

outVars == <<start_time, total_time, results, rmse, log>>

bool(v) == v = TRUE

\* The configuration cell up to the load: a failed load is printed and leaves
\* config = None.
LoadConfigLF ==
    /\ pc = "config"
    /\ config' = config_file
    /\ pc' = "hyper"
    /\ Tick
    /\ UNCHANGED <<error, inputVars, nnVars, hyper_optimization, hyper_epoch, number_users,
                   number_movies, global_average, biasVars, paramVars, loopVars, trials,
                   outVars>>

\* hyper_optimization = bool(config["hyper_optimization"]); hyper_epoch = ...
ReadHyperConfig ==
    /\ pc = "hyper"
    /\ LET ho == GetItem(config, "hyper_optimization")
           he == GetItem(config, "hyper_epoch")
       IN  IF ~IsValue(ho)
           THEN Raise(ho.raised) /\ UNCHANGED <<hyper_optimization, hyper_epoch>>
           ELSE IF ~IsValue(he)
           THEN Raise(he.raised) /\ hyper_optimization' = bool(ho.value)
                /\ UNCHANGED hyper_epoch
           ELSE /\ hyper_optimization' = bool(ho.value)
                /\ hyper_epoch' = he.value
                /\ pc' = "biases"
                /\ UNCHANGED error
    /\ Tick
    /\ UNCHANGED <<config, inputVars, nnVars, number_users, number_movies, global_average,
                   biasVars, paramVars, loopVars, trials, outVars>>

\* np.max(train_set, axis=0)[c - 1] for the columns of the ids
RECURSIVE MaxColumn(_, _)
MaxColumn(set, c) ==
    IF Len(set) = 1 THEN set[1][c]
    ELSE LET m == MaxColumn(Tail(set), c) IN IF set[1][c] > m THEN set[1][c] ELSE m

\* The cell of the statistics: number_users, number_movies, global_average
\* and (init_users_bias, init_movies_bias) = get_biases(...), two new
\* dictionaries.
ComputeInitBiases ==
    /\ pc = "biases"
    /\ number_users' = MaxColumn(train_set, 1)
    /\ number_movies' = MaxColumn(train_set, 2)
    /\ global_average' = MeanRating(train_set)
    /\ init_users_bias' = Address(0, 1)
    /\ init_movies_bias' = Address(0, 2)
    /\ LET biases == get_biases(utility_matrix, global_average')
       IN  heap' = [a \in {init_users_bias', init_movies_bias'} |->
                       IF a = init_users_bias' THEN biases[1] ELSE biases[2]]
    /\ pc' = "main"
    /\ Tick
    /\ UNCHANGED <<error, config, inputVars, nnVars, hyper_optimization, hyper_epoch,
                   users_bias, movies_bias, paramVars, loopVars, trials, outVars>>

\* movies_bias = init_movies_bias.copy(); users_bias = init_users_bias.copy()
\* and the test of hyper_optimization
CopyBiases ==
    /\ pc = "main"
    /\ LET m == DictCopy(heap, init_movies_bias, Address(1, 1))
           u == DictCopy(m[1], init_users_bias, Address(1, 2))
       IN  /\ movies_bias' = m[2]
           /\ users_bias' = u[2]
           /\ heap' = u[1]
    /\ pc' = IF hyper_optimization THEN "study" ELSE "params"
    /\ Tick
    /\ UNCHANGED <<error, config, inputVars, nnVars, hyper_optimization, hyper_epoch,
                   number_users, number_movies, global_average, init_users_bias,
                   init_movies_bias, paramVars, loopVars, trials, outVars>>

\* The globals build_latent_factors and predict read.
Globals == [number_movies |-> number_movies, number_users |-> number_users,
            utility_matrix |-> utility_matrix, global_average |-> global_average]

\* The four reads of config of the branch without optimization, in their
\* order, and start_time = time.time()
ReadTrainConfig ==
    /\ pc = "params"
    /\ LET lf == GetItem(config, "latent_factors")
           te == GetItem(config, "train_epoch")
           al == GetItem(config, "alpha")
           rf == GetItem(config, "regularization_factor")
           failed == ~IsValue(lf) \/ ~IsValue(te) \/ ~IsValue(al) \/ ~IsValue(rf)
           first == IF ~IsValue(lf) THEN lf ELSE IF ~IsValue(te) THEN te
                    ELSE IF ~IsValue(al) THEN al ELSE rf
       IN  /\ latent_factors' = IF IsValue(lf) THEN lf.value ELSE latent_factors
           /\ train_epoch' = IF IsValue(lf) /\ IsValue(te) THEN te.value ELSE train_epoch
           /\ alpha' = IF IsValue(lf) /\ IsValue(te) /\ IsValue(al) THEN al.value ELSE alpha
           /\ regularization' = IF ~failed THEN rf.value ELSE regularization
           /\ IF failed THEN Raise(first.raised) /\ UNCHANGED start_time
              ELSE pc' = "factors" /\ start_time' = clock /\ UNCHANGED error
    /\ Tick
    /\ UNCHANGED <<config, inputVars, nnVars, hyper_optimization, hyper_epoch, number_users,
                   number_movies, global_average, biasVars, loopVars, trials, total_time,
                   results, rmse, log>>

\* build_latent_factors in __main__: q and p are drawn.
InitFactors ==
    /\ pc = "factors"
    /\ \E seed \in Seeds :
          /\ q' = InitialQ(seed, Globals, latent_factors)
          /\ p' = InitialP(seed, Globals, latent_factors)
    /\ epoch' = 0
    /\ cell' = 0
    /\ updates' = <<>>
    /\ pc' = "train"
    /\ Tick
    /\ UNCHANGED <<error, config, inputVars, nnVars, hyper_optimization, hyper_epoch,
                   number_users, number_movies, global_average, biasVars, paramVars,
                   trials, outVars>>

\* The loops with the users outside of the movies.
NextCellUserMajor ==
    IF cell + number_users < number_movies * number_users
    THEN cell' = cell + number_users /\ UNCHANGED epoch
    ELSE IF (cell % number_users) + 1 < number_users
    THEN cell' = (cell % number_users) + 1 /\ UNCHANGED epoch
    ELSE cell' = 0 /\ epoch' = epoch + 1

\* The next iteration of the loops over e, i and j.
NextCell ==
    IF cell + 1 < number_movies * number_users
    THEN cell' = cell + 1 /\ UNCHANGED epoch
    ELSE cell' = 0 /\ epoch' = epoch + 1

InLoop == pc = "train" /\ epoch < train_epoch /\ cell < number_movies * number_users

\* An iteration at a cell with a rating: the four updates.
SgdUpdate ==
    /\ InLoop
    /\ LET i == cell \div number_users
           j == cell % number_users
           st == SgdStep([movies_bias |-> heap[movies_bias], users_bias |-> heap[users_bias],
                          q |-> q, p |-> p],
                         i, j, alpha, regularization, Globals)
       IN  /\ ~isnan(utility_matrix[i][j])
           /\ heap' = WriteDict(WriteDict(heap, movies_bias, st.movies_bias),
                                 users_bias, st.users_bias)
           /\ q' = st.q
           /\ updates' = Append(updates, <<epoch, i, j>>)
           /\ p' = st.p
    /\ NextCell
    /\ Tick
    /\ UNCHANGED <<pc, error, config, inputVars, nnVars, hyper_optimization, hyper_epoch,
                   number_users, number_movies, global_average, init_users_bias,
                   init_movies_bias, users_bias, movies_bias, paramVars, trials, outVars>>

\* An iteration at a cell without one: continue.
SkipMissing ==
    /\ InLoop
    /\ isnan(utility_matrix[cell \div number_users][cell % number_users])
    /\ NextCell
    /\ Tick
    /\ UNCHANGED <<pc, error, config, inputVars, nnVars, hyper_optimization, hyper_epoch,
                   number_users, number_movies, global_average, biasVars, paramVars, q, p,
                   updates,
                   trials, outVars>>

\* The loops are over: results = predict_results(...); time = time.time() - start_time
PredictTestSet ==
    /\ pc = "train"
    /\ ~(epoch < train_epoch)
    /\ results' = predict_results(q, p, heap[movies_bias], heap[users_bias], test_set,
                                  global_average)
    /\ total_time' = clock - start_time
    /\ pc' = "rmse"
    /\ Tick
    /\ UNCHANGED <<error, config, inputVars, nnVars, hyper_optimization, hyper_epoch,
                   number_users, number_movies, global_average, biasVars, paramVars,
                   loopVars, trials, start_time, rmse, log>>

\* rmse = calculate_RMSE(results, test_set)
ComputeRMSELF ==
    /\ pc = "rmse"
    /\ LET r == calculate_RMSE(results, test_set)
       IN  IF IsValue(r)
           THEN rmse' = r.value /\ pc' = "save" /\ UNCHANGED error
           ELSE Raise(r.raised) /\ UNCHANGED rmse
    /\ Tick
    /\ UNCHANGED <<config, inputVars, nnVars, hyper_optimization, hyper_epoch, number_users,
                   number_movies, global_average, biasVars, paramVars, loopVars, trials,
                   start_time, total_time, results, log>>

\* logger.save(time, rmse)
SaveLF ==
    /\ pc = "save"
    /\ log' = Append(log, <<total_time, rmse>>)
    /\ pc' = "done"
    /\ Tick
    /\ UNCHANGED <<error, config, inputVars, nnVars, hyper_optimization, hyper_epoch,
                   number_users, number_movies, global_average, biasVars, paramVars,
                   loopVars, trials, start_time, total_time, results, rmse>>

\* ---- The branch with optimization. study.optimize runs objective once per
\* trial, the trials on the threads of a pool (n_jobs = -1).
NewTrial ==
    [state |-> "suggest", latent_factors |-> Undefined, train_epoch |-> Undefined,
     alpha |-> Undefined, regularization |-> Undefined,
     movies_bias |-> Undefined, users_bias |-> Undefined,
     q |-> <<>>, p |-> <<>>, results |-> NoList, value |-> Undefined, error |-> ""]

Ended(trial) == trial.state \in {"complete", "failed"}

staticVars == <<error, config, inputVars, nnVars, hyper_optimization, hyper_epoch,
                number_users, number_movies, global_average, init_users_bias,
                init_movies_bias, users_bias, movies_bias, paramVars, loopVars, outVars>>

\* study = optuna.create_study(); study.optimize(objective, n_trials=hyper_epoch, ...)
CreateStudy ==
    /\ pc = "study"
    /\ trials' = <<>>
    /\ pc' = "optimize"
    /\ Tick
    /\ UNCHANGED <<staticVars, heap>>

\* The study starts its next trial: objective(trial) is called.
StartTrial ==
    /\ pc = "optimize"
    /\ Len(trials) < hyper_epoch
    /\ trials' = Append(trials, NewTrial)
    /\ Tick
    /\ UNCHANGED <<pc, staticVars, heap>>

\* The four trial.suggest_... calls of objective
TrialSuggest(t) ==
    /\ trials[t].state = "suggest"
    /\ \E lf \in Drawn(SuggestLatentFactors), te \in Drawn(SuggestTrainEpoch),
          al \in Drawn(SuggestAlpha), rg \in Drawn(SuggestRegularization) :
          trials' = [trials EXCEPT ![t].latent_factors = lf, ![t].train_epoch = te,
                                   ![t].alpha = al, ![t].regularization = rg,
                                   ![t].state = "copy"]
    /\ Tick
    /\ UNCHANGED <<pc, staticVars, heap>>

\* movies_bias = init_movies_bias.copy(); users_bias = init_users_bias.copy()
TrialCopy(t) ==
    /\ trials[t].state = "copy"
    /\ LET m == DictCopy(heap, init_movies_bias, Address(1 + t, 1))
           u == DictCopy(m[1], init_users_bias, Address(1 + t, 2))
       IN  /\ trials' = [trials EXCEPT ![t].movies_bias = m[2], ![t].users_bias = u[2],
                                       ![t].state = "train"]
           /\ heap' = u[1]
    /\ Tick
    /\ UNCHANGED <<pc, staticVars>>

\* (q, p) = build_latent_factors(...): it writes q, p and the two dictionaries
\* it was given, nothing else.
TrialTrain(t) ==
    /\ trials[t].state = "train"
    /\ LET trial == trials[t]
           Trained == {build_latent_factors(trial.latent_factors, trial.train_epoch,
                                            trial.alpha, trial.regularization,
                                            heap[trial.movies_bias], heap[trial.users_bias],
                                            seed, Globals) : seed \in Seeds}
       IN  \E st \in Trained :
              /\ heap' = WriteDict(WriteDict(heap, trial.movies_bias, st.movies_bias),
                                    trial.users_bias, st.users_bias)
              /\ trials' = [trials EXCEPT ![t].q = st.q, ![t].p = st.p,
                                          ![t].state = "evaluate"]
    /\ Tick
    /\ UNCHANGED <<pc, staticVars>>

\* results = predict_results(..., validation_set) and
\* return calculateRMSE(results, validation_set): the name calculateRMSE is
\* bound nowhere, the call raises NameError.
TrialEvaluate(t) ==
    /\ trials[t].state = "evaluate"
    /\ LET trial == trials[t]
       IN  trials' = [trials EXCEPT
                         ![t].results = predict_results(trial.q, trial.p,
                                                        heap[trial.movies_bias],
                                                        heap[trial.users_bias],
                                                        validation_set, global_average),
                         ![t].error = "NameError",
                         ![t].state = "failed"]
    /\ Tick
    /\ UNCHANGED <<pc, staticVars, heap>>

Running == {t \in 1..Len(trials) : ~Ended(trials[t])}

Failed == {t \in 1..Len(trials) : trials[t].state = "failed"}

Complete == {t \in 1..Len(trials) : trials[t].state = "complete"}

\* study.optimize raises what a trial raised, once the pool has no trial
\* running.
OptimizeRaises ==
    /\ pc = "optimize"
    /\ Running = {}
    /\ \E t \in Failed : Raise(trials[t].error)
    /\ Tick
    /\ UNCHANGED <<config, inputVars, nnVars, hyper_optimization, hyper_epoch, number_users,
                   number_movies, global_average, biasVars, paramVars, loopVars, trials,
                   outVars>>

\* study.optimize returns: the pool has run all the trials and the exception
\* of a trial was not retrieved from it.
OptimizeReturns ==
    /\ pc = "optimize"
    /\ Len(trials) = hyper_epoch
    /\ Running = {}
    /\ pc' = "best"
    /\ Tick
    /\ UNCHANGED <<staticVars, heap, trials>>

\* The four reads of study.best_params: ValueError when no trial is complete,
\* KeyError at "regularization_factor", which no trial suggested. What follows
\* them in the branch is never run.
ReadBestParams ==
    /\ pc = "best"
    /\ IF Complete = {}
       THEN Raise("ValueError") /\ UNCHANGED paramVars
       ELSE LET best == CHOOSE t \in Complete :
                            \A u \in Complete : trials[t].value <= trials[u].value
            IN  /\ latent_factors' = trials[best].latent_factors
                /\ train_epoch' = trials[best].train_epoch
                /\ alpha' = trials[best].alpha
                /\ Raise("KeyError")
                /\ UNCHANGED regularization
    /\ Tick
    /\ UNCHANGED <<config, inputVars, nnVars, hyper_optimization, hyper_epoch, number_users,
                   number_movies, global_average, biasVars, loopVars, trials, outVars>>

Trials == 1..Len(trials)

SuggestStep == \E t \in Trials : TrialSuggest(t)

CopyStep == \E t \in Trials : TrialCopy(t)

TrainStep == \E t \in Trials : TrialTrain(t)

EvaluateStep == \E t \in Trials : TrialEvaluate(t)

NextLF ==
    \/ LoadConfigLF
    \/ ReadHyperConfig
    \/ ComputeInitBiases
    \/ CopyBiases
    \/ ReadTrainConfig
    \/ InitFactors
    \/ SgdUpdate
    \/ SkipMissing
    \/ PredictTestSet
    \/ ComputeRMSELF
    \/ SaveLF
    \/ CreateStudy
    \/ StartTrial
    \/ SuggestStep
    \/ CopyStep
    \/ TrainStep
    \/ EvaluateStep
    \/ OptimizeRaises
    \/ OptimizeReturns
    \/ ReadBestParams

SpecLF == InitLF /\ [][NextLF]_vars

\* ------------------------------------------------- claims on the dispatcher
Terminated(pid) == wstate[pid + 1] \in {"exited", "crashed"}

AllStarted == num_processes # Undefined /\ Len(wstate) = num_processes

\* What one process predicting the whole test set in its order produces.
SequentialPredictions ==
    [n \in 1..Len(test_set) |->
        PredictRating(utility_matrix, test_set[n], num_neighbours, global_average,
                      users_bias, movies_bias)]

\* C1: once every process has completed, the merged list of ratings has the
\* length of the test set and its n-th entry is the prediction of the n-th
\* request, for every number of processes and every interleaving.
C1_MergedEqualsSequential ==
    (results # NoList /\ \A pid \in Started : wstate[pid + 1] = "exited")
        => results = SequentialPredictions

\* Both processes completed, the second stored its result first, and the order
\* of the merged list matters.
C1_Witness ==
    /\ pc = "done"
    /\ Len(wstate) = 2 /\ wstate[1] = "exited" /\ wstate[2] = "exited"
    /\ return_dict[1][1] = 1
    /\ Len(results) = 3
    /\ results[1] # results[3]

\* C2: the chunks are num_processes contiguous runs of the test set whose
\* concatenation in partition order is the test set and whose sizes differ by
\* at most one; process i predicts chunk i and nothing else.
C2_ChunksPartition ==
    chunks # <<>> =>
        /\ Len(chunks) = num_processes
        /\ Flatten(chunks) = test_set
        /\ \A i, j \in 1..Len(chunks) : Abs(Len(chunks[i]) - Len(chunks[j])) <= 1
        /\ \A pid \in Started :
              /\ Len(wresult[pid + 1]) = windex[pid + 1]
              /\ windex[pid + 1] <= Len(chunks[pid + 1])
              /\ \A n \in 1..windex[pid + 1] :
                    wresult[pid + 1][n] =
                        <<n, PredictRating(utility_matrix, chunks[pid + 1][n], num_neighbours,
                                           global_average, users_bias, movies_bias)>>

\* Three requests over two processes: chunks of two and of one, both predicted.
C2_Witness ==
    /\ Len(chunks) = 2
    /\ Len(chunks[1]) = 2 /\ Len(chunks[2]) = 1
    /\ Len(windex) = 2 /\ windex[1] = 2 /\ windex[2] = 1

\* C3: from the start of the batch on no step changes the utility matrix, the
\* bias tables or the global average, and an entry of the shared dictionary is
\* written only by the process whose id is its key, when it stores its result.
C3_WorkersWriteOnlyOwnEntry ==
    [][/\ chunks # <<>> =>
            /\ utility_matrix' = utility_matrix
            /\ users_bias' = users_bias
            /\ movies_bias' = movies_bias
            /\ global_average' = global_average
            /\ users_bias = get_biases(utility_matrix, MeanRating(train_set))[1]
            /\ movies_bias = get_biases(utility_matrix, MeanRating(train_set))[2]
       /\ Keys(return_dict) \subseteq Keys(return_dict')
       /\ \A n \in 1..Len(return_dict') :
            (\A k \in 1..Len(return_dict) : return_dict[k] # return_dict'[n])
                => LET key == return_dict'[n][1]
                   IN  /\ key \in Started
                       /\ wstate[key + 1] = "running"
                       /\ wstate'[key + 1] = "stored"
                       /\ \A pid \in Started \ {key} : wstate'[pid + 1] = wstate[pid + 1]
      ]_vars

\* Both processes have written their entries, the second one first.
C3_Witness ==
    /\ Len(return_dict) = 2
    /\ return_dict[1][1] = 1 /\ return_dict[2][1] = 0
    /\ return_dict[1][2] # <<>>

\* C4: the merge happens once, and only when every started process has
\* terminated; so do the RMSE computation and the call of the logger, which
\* follow the merge.
C4_MergeAfterJoin ==
    [][/\ results' # results =>
            /\ results = NoList
            /\ AllStarted
            /\ \A pid \in Started : Terminated(pid)
       /\ (rmse' # rmse \/ log' # log) =>
            /\ results # NoList
            /\ AllStarted
            /\ \A pid \in Started : Terminated(pid)
      ]_vars

\* The merge has just happened, after both processes have exited.
C4_Witness ==
    /\ pc = "rmse"
    /\ results # NoList
    /\ Len(wstate) = 2 /\ wstate[1] = "exited" /\ wstate[2] = "exited"

\* C5: when a process has terminated abnormally before storing its result, no
\* RMSE is computed and the logger is not called.
C5_CrashIsFatal ==
    (\E pid \in Started : wstate[pid + 1] = "crashed")
        => (rmse = Undefined /\ log = <<>>)

\* ---------------------------------------------------------------- C6
\* The dictionaries get_biases returned for the utility matrix of the run.
InitialBiases == get_biases(utility_matrix, MeanRating(train_set))

\* The trials that have made their copies.
WithCopies == {t \in Trials : trials[t].state \notin {"suggest", "copy"}}

BiasTables(t) == {trials[t].movies_bias, trials[t].users_bias}

\* C6: every trial trains on its own copies of the initial bias tables.  In
\* every reachable state, whatever the number of trials and however they
\* interleave, init_users_bias and init_movies_bias hold what get_biases
\* returned; the two dictionaries of a trial are neither the initial ones,
\* nor those of __main__, nor those of another trial; and a trial that is
\* about to train holds the initial values in both of its dictionaries.
C6_TrialsTrainOnOwnCopies ==
    (heap # <<>>) =>
        /\ heap[init_users_bias] = InitialBiases[1]
        /\ heap[init_movies_bias] = InitialBiases[2]
        /\ \A t \in WithCopies :
              /\ trials[t].movies_bias # trials[t].users_bias
              /\ BiasTables(t) \cap {init_users_bias, init_movies_bias,
                                     users_bias, movies_bias} = {}
              /\ \A u \in WithCopies \ {t} : BiasTables(t) \cap BiasTables(u) = {}
              /\ trials[t].state = "train" =>
                    /\ heap[trials[t].users_bias] = InitialBiases[1]
                    /\ heap[trials[t].movies_bias] = InitialBiases[2]

\* Two trials run concurrently: one has trained and changed both of its
\* dictionaries, the other has made its copies after that or before and is
\* about to train.
C6_Witness ==
    \E t \in Trials, u \in Trials :
        /\ trials[t].state \in {"evaluate", "failed"}
        /\ heap[trials[t].users_bias] # InitialBiases[1]
        /\ heap[trials[t].movies_bias] # InitialBiases[2]
        /\ trials[u].state = "train"

\* ---------------------------------------------------------------- C7
\* C7: a call of objective that has ended has returned a value, the RMSE of
\* its predictions for the validation split against the validation ratings.
C7_ObjectiveReturnsValidationRMSE ==
    \A t \in Trials :
        Ended(trials[t]) =>
            /\ trials[t].state = "complete"
            /\ trials[t].error = ""
            /\ Value(trials[t].value) = calculate_RMSE(trials[t].results, validation_set)

\* ---------------------------------------------------------------- C8
\* study.optimize is over, by return or by exception, with all the trials of
\* the configuration run.
SearchOver ==
    /\ hyper_optimization
    /\ pc \notin {"study", "optimize"}
    /\ trials # <<>>
    /\ Len(trials) = hyper_epoch
    /\ Running = {}

\* C8: with the search enabled and the configured number of trials run, the
\* driver goes on without an error, and once it has read the parameters of
\* the best trial each of the four lies in its declared range.
C8_DriverReadsBestParams ==
    SearchOver =>
        /\ error = ""
        /\ pc # "best" =>
              /\ latent_factors \in SuggestLatentFactors
              /\ train_epoch \in SuggestTrainEpoch
              /\ alpha \in SuggestAlpha
              /\ regularization \in SuggestRegularization

\* ---------------------------------------------------------------- C9
\* C9: a run of latent_factors.ipynb with a well-formed configuration that
\* has come to its end has called logger.save exactly once, with the elapsed
\* time and the RMSE of the predictions against the test split; no run calls
\* it more than once.
C9_LoggerCalledOnce ==
    /\ Len(log) <= 1
    /\ (config_file \in WellFormedLF /\ pc \in {"done", "error"}) =>
          /\ Len(log) = 1
          /\ log[1] = <<total_time, rmse>>
          /\ Value(rmse) = calculate_RMSE(results, test_set)

\* ---------------------------------------------------------------- C10
\* C10: a run of latent_factors.ipynb whose configuration could not be
\* loaded or lacks a key that its mode requires ends in an error with no
\* computation step performed: no bias estimated, no factor drawn or
\* trained, no trial started.
C10_ConfigErrorBeforeComputation ==
    (config_file \notin WellFormedLF /\ pc = "error") =>
        /\ error \in {"TypeError", "KeyError"}
        /\ global_average = Undefined
        /\ heap = <<>>
        /\ q = <<>>
        /\ trials = <<>>

\* ---------------------------------------------------------------- C11
\* calculate_RMSE applied to lists of predictions and to data sets of every
\* length up to MaxReq, the empty ones included.
EvalPredictions == {2 * Scale, (7 * Scale) \div 2}

EvalRecords == {<<1, 1, 2>>, <<2, 1, 4>>}

InitEval ==
    /\ pc = "rmse"
    /\ error = ""
    /\ clock = 0
    /\ config_file = None
    /\ config = None
    /\ utility_matrix = <<>>
    /\ train_set = <<>>
    /\ validation_set = <<>>
    /\ test_set \in SeqsUpTo(EvalRecords, MaxReq)
    /\ results \in SeqsUpTo(EvalPredictions, MaxReq)
    /\ global_average = Undefined
    /\ users_bias = Undefined
    /\ movies_bias = Undefined
    /\ start_time = Undefined
    /\ total_time = Undefined
    /\ rmse = Undefined
    /\ log = <<>>
    /\ UnboundLF
    /\ num_processes = Undefined
    /\ num_neighbours = Undefined
    /\ chunks = <<>>
    /\ return_dict = <<>>
    /\ wstate = <<>>
    /\ windex = <<>>
    /\ wresult = <<>>
    /\ joined = 0

\* The call of calculate_RMSE of either notebook.
NextEval ==
    \/ ComputeRMSE
    \/ ComputeRMSELF

SpecEval == InitEval /\ [][NextEval]_vars

\* The call has ended.
Evaluated == pc \in {"save", "error"}

\* The predictions are the ratings of the data set.
ExactPredictions ==
    /\ Len(results) = Len(test_set)
    /\ \A n \in 1..Len(results) : results[n] = test_set[n][3] * Scale

\* C11 (amended): calculate_RMSE fails, with no RMSE, when the two lengths
\* differ and also when both are zero; it returns a value when the lengths
\* are equal and not zero, and the value is 0 when the predictions are the
\* ratings.
C11_EvaluatorLengthCheck ==
    Evaluated =>
        /\ Len(results) # Len(test_set) =>
              pc = "error" /\ error = "AssertionError" /\ rmse = Undefined
        /\ (Len(results) = Len(test_set) /\ Len(results) = 0) =>
              pc = "error" /\ error = "ValueError" /\ rmse = Undefined
        /\ (Len(results) = Len(test_set) /\ Len(results) > 0) =>
              pc = "save" /\ error = "" /\ rmse >= 0
        /\ (ExactPredictions /\ Len(results) > 0) => rmse = 0

\* A call with lists of different lengths has failed.
C11_Witness ==
    /\ Evaluated
    /\ Len(results) # Len(test_set)
    /\ Len(results) > 0
    /\ Len(test_set) > 0
    /\ error = "AssertionError"

\* C11 as stated: a value whenever the lengths are equal.
C11_ValueWheneverEqualLengths ==
    (Evaluated /\ Len(results) = Len(test_set)) => (pc = "save" /\ rmse # Undefined)

\* ------------------------------------------------- build_latent_factors
\* build_latent_factors as __main__ calls it, applied to utility matrices
\* with and without ratings: one with no rating at all, one with a movie
\* and one with a user that nobody rated, resp. that rated nothing.
TrainMatrices ==
    { [i \in 0..1 |-> [j \in 0..1 |-> <<<<N, N>>, <<N, N>>>>[i + 1][j + 1]]],
      [i \in 0..1 |-> [j \in 0..1 |-> <<<<N, N>>, <<4, 2>>>>[i + 1][j + 1]]],
      [i \in 0..1 |-> [j \in 0..1 |-> <<<<N, 5>>, <<N, 3>>>>[i + 1][j + 1]]],
      [i \in 0..1 |-> [j \in 0..1 |-> <<<<5, 3>>, <<N, 2>>>>[i + 1][j + 1]]] }

\* The learning rates of these calls: 0.01 and 0.1.
TrainAlphas == {Scale \div 100, Scale \div 10}

TrainConfigs ==
    {[TrainConfig(factors, epochs) EXCEPT !.alpha = a] :
        factors \in 1..MaxFactors, epochs \in 0..MaxEpochs, a \in TrainAlphas}

\* The mean rating where there is one; any value where there is no rating.
GlobalAverageOf(set) == IF set = <<>> THEN 3 * Scale ELSE MeanRating(set)

\* The state of __main__ at its call of build_latent_factors.
InitTrain ==
    /\ pc = "factors"
    /\ error = ""
    /\ clock = 0
    /\ config_file \in TrainConfigs
    /\ config = config_file
    /\ utility_matrix \in TrainMatrices
    /\ train_set = TrainSetOf(utility_matrix)
    /\ test_set = TestRecordsLF
    /\ validation_set = <<>>
    /\ hyper_optimization = FALSE
    /\ hyper_epoch = config.hyper_epoch
    /\ number_users = NumUsers(utility_matrix)
    /\ number_movies = NumMovies(utility_matrix)
    /\ global_average = GlobalAverageOf(train_set)
    /\ init_users_bias = Address(0, 1)
    /\ init_movies_bias = Address(0, 2)
    /\ movies_bias = Address(1, 1)
    /\ users_bias = Address(1, 2)
    /\ LET biases == get_biases(utility_matrix, global_average)
       IN  heap = [a \in {init_users_bias, init_movies_bias, movies_bias, users_bias} |->
                      IF a \in {init_users_bias, users_bias} THEN biases[1] ELSE biases[2]]
    /\ latent_factors = config.latent_factors
    /\ train_epoch = config.train_epoch
    /\ alpha = config.alpha
    /\ regularization = config.regularization_factor
    /\ q = <<>>
    /\ p = <<>>
    /\ epoch = Undefined
    /\ cell = Undefined
    /\ updates = <<>>
    /\ trials = <<>>
    /\ start_time = clock
    /\ total_time = Undefined
    /\ results = NoList
    /\ rmse = Undefined
    /\ log = <<>>
    /\ num_processes = Undefined
    /\ num_neighbours = Undefined
    /\ chunks = <<>>
    /\ return_dict = <<>>
    /\ wstate = <<>>
    /\ windex = <<>>
    /\ wresult = <<>>
    /\ joined = 0

\* The call and the predictions that follow it.
NextTrain ==
    \/ InitFactors
    \/ SgdUpdate
    \/ SkipMissing
    \/ PredictTestSet

SpecTrain == InitTrain /\ [][NextTrain]_vars

\* ---------------------------------------------------------------- C12
\* The movies and the users without a rating in the utility matrix.
UnratedMovies ==
    {i \in 0..(number_movies - 1) :
        \A j \in 0..(number_users - 1) : isnan(utility_matrix[i][j])}

UnratedUsers ==
    {j \in 0..(number_users - 1) :
        \A i \in 0..(number_movies - 1) : isnan(utility_matrix[i][j])}

\* The loops of build_latent_factors have started, resp. are over.
Training == pc \in {"train", "rmse"}

TrainingOver == pc = "rmse" \/ (pc = "train" /\ epoch >= train_epoch)

\* C12: during and after the training, the row of Q and the bias of a movie
\* without a rating, and the column of P and the bias of a user without a
\* rating, are those of the random draw, resp. of before the call; with no
\* rating at all, the whole of Q, P and of both bias dictionaries are.
C12_TrainingFrame ==
    Training =>
        \E seed \in Seeds :
            /\ \A i \in UnratedMovies :
                  /\ q[i] = InitialQ(seed, Globals, latent_factors)[i]
                  /\ heap[movies_bias][i] = heap[init_movies_bias][i]
            /\ \A j \in UnratedUsers :
                  /\ p[j] = InitialP(seed, Globals, latent_factors)[j]
                  /\ heap[users_bias][j] = heap[init_users_bias][j]
            /\ train_set = <<>> =>
                  /\ q = InitialQ(seed, Globals, latent_factors)
                  /\ p = InitialP(seed, Globals, latent_factors)
                  /\ heap[movies_bias] = heap[init_movies_bias]
                  /\ heap[users_bias] = heap[init_users_bias]

\* A training is over that has left the row of a movie without a rating as
\* drawn and has changed the row of a movie with ratings.
C12_Witness ==
    /\ TrainingOver
    /\ train_epoch > 0
    /\ UnratedMovies # {}
    /\ \E i \in (0..(number_movies - 1)) \ UnratedMovies :
          \A seed \in Seeds : q[i] # InitialQ(seed, Globals, latent_factors)[i]
    /\ \E seed \in Seeds :
          \A i \in UnratedMovies : q[i] = InitialQ(seed, Globals, latent_factors)[i]

\* ---------------------------------------------------------------- C13
\* The cells with a rating among the first c cells, movie by movie and user
\* by user, as the updates of the epoch e.
RECURSIVE ObservedBefore(_, _)
ObservedBefore(e, c) ==
    IF c = 0 THEN <<>>
    ELSE LET i == (c - 1) \div number_users
             j == (c - 1) % number_users
         IN  ObservedBefore(e, c - 1)
             \o (IF isnan(utility_matrix[i][j]) THEN <<>> ELSE <<<<e, i, j>>>>)

\* The updates of the epochs before e and of the first c cells of e.
RECURSIVE UpdatesBefore(_, _)
UpdatesBefore(e, c) ==
    IF e = 0 THEN ObservedBefore(0, c)
    ELSE UpdatesBefore(e - 1, number_movies * number_users) \o ObservedBefore(e, c)

\* The steps of ups from the n-th on, applied one after the other to st.
RECURSIVE Replay(_, _, _)
Replay(st, ups, n) ==
    IF n > Len(ups) THEN st
    ELSE Replay(SgdStep(st, ups[n][2], ups[n][3], alpha, regularization, Globals),
                ups, n + 1)

\* What the training holds: the two dictionaries of __main__, q and p.
TrainingState ==
    [movies_bias |-> heap[movies_bias], users_bias |-> heap[users_bias], q |-> q, p |-> p]

\* The same before the first step, for a draw of q and p.
DrawnState(seed) ==
    [movies_bias |-> heap[init_movies_bias], users_bias |-> heap[init_users_bias],
     q |-> InitialQ(seed, Globals, latent_factors),
     p |-> InitialP(seed, Globals, latent_factors)]

\* C13: the update steps of a training are, epoch after epoch, the cells with
\* a rating by ascending movie and, within a movie, ascending user; a cell
\* without a rating gives no step; what the training holds is what these
\* steps, each applied to what the steps before it left, make of the draw;
\* and a training that is over has made train_epoch times the number of
\* ratings steps.
C13_UpdateOrder ==
    Training =>
        /\ updates = UpdatesBefore(epoch, cell)
        /\ \E seed \in Seeds : TrainingState = Replay(DrawnState(seed), updates, 1)
        /\ TrainingOver =>
              /\ epoch = train_epoch
              /\ Len(updates) = train_epoch * Len(train_set)

\* A training of several epochs over a matrix with a missing cell is over.
C13_Witness ==
    /\ TrainingOver
    /\ train_epoch >= 2
    /\ Len(train_set) >= 2
    /\ Len(train_set) < number_movies * number_users
    /\ Len(updates) = train_epoch * Len(train_set)

\* ---------------------------------------------------------------- C14
\* What build_latent_factors makes of the values passed to it, for a draw.
Returned(seed) ==
    build_latent_factors(latent_factors, train_epoch, alpha, regularization,
                         heap[init_movies_bias], heap[init_users_bias], seed, Globals)

\* C14: build_latent_factors writes the dictionaries it is given.  When it
\* has returned, movies_bias and users_bias of __main__ hold the values of
\* its last update (other values than those passed in whenever the updates
\* changed them), and the predictions made afterwards are made with these.
C14_BiasesTrainedInPlace ==
    TrainingOver =>
        \E seed \in Seeds :
            /\ q = Returned(seed).q
            /\ p = Returned(seed).p
            /\ heap[movies_bias] = Returned(seed).movies_bias
            /\ heap[users_bias] = Returned(seed).users_bias
            /\ Returned(seed).movies_bias # heap[init_movies_bias] =>
                  heap[movies_bias] # heap[init_movies_bias]
            /\ Returned(seed).users_bias # heap[init_users_bias] =>
                  heap[users_bias] # heap[init_users_bias]
            /\ pc = "rmse" =>
                  results = predict_results(Returned(seed).q, Returned(seed).p,
                                            Returned(seed).movies_bias,
                                            Returned(seed).users_bias,
                                            test_set, global_average)

\* The predictions have been made after a training that changed both
\* dictionaries, and they are not those the values passed in would give.
C14_Witness ==
    /\ pc = "rmse"
    /\ heap[movies_bias] # heap[init_movies_bias]
    /\ heap[users_bias] # heap[init_users_bias]
    /\ results # predict_results(q, p, heap[init_movies_bias], heap[init_users_bias],
                                 test_set, global_average)

\* ---------------------------------------------------------------- C18
\* The residual of the cell (i, j) for the values st.
ResidualAt(st, i, j) ==
    utility_matrix[i][j] * Scale
        - (global_average + st.movies_bias[i] + st.users_bias[j] + dot(st.q[i], st.p[j]))

\* C18: a step of the training at the cell (i, j) computes the residual once,
\* from the values of before the step, and uses it in its four updates; the
\* new biases of i and of j and the new row Q[i, :] are computed from the
\* values of before the step, the new column P[:, j] from the new row
\* Q[i, :].
C18_UpdateStep ==
    [][(pc = "train" /\ updates' # updates) =>
          LET i == cell \div number_users
              j == cell % number_users
              difference == ResidualAt(TrainingState, i, j)
          IN  /\ updates' = Append(updates, <<epoch, i, j>>)
              /\ heap'[movies_bias][i] =
                    UpdateBias(heap[movies_bias][i], difference, alpha, regularization)
              /\ heap'[users_bias][j] =
                    UpdateBias(heap[users_bias][j], difference, alpha, regularization)
              /\ q'[i] = UpdateFrom(q[i], p[j], difference, alpha, regularization, 1)
              /\ p'[j] = UpdateFrom(p[j], q'[i], difference, alpha, regularization, 1)
      ]_vars

\* A step has just been made whose new column of P is not the one that the
\* row of Q of before the step would have given.
C18_Witness ==
    /\ pc = "train"
    /\ updates # <<>>
    /\ \E seed \in Seeds :
          LET last == updates[Len(updates)]
              i == last[2]
              j == last[3]
              before == Replay(DrawnState(seed), SubSeq(updates, 1, Len(updates) - 1), 1)
              difference == ResidualAt(before, i, j)
          IN  /\ TrainingState = Replay(DrawnState(seed), updates, 1)
              /\ q[i] # before.q[i]
              /\ p[j] = UpdateFrom(before.p[j], q[i], difference, alpha, regularization, 1)
              /\ p[j] # UpdateFrom(before.p[j], before.q[i], difference, alpha,
                                   regularization, 1)

\* ------------------------------------------- predict_nearestneighbor_mp
\* predict_nearestneighbor_mp in one process, applied to one request for
\* every cell of utility matrices of four movies and three users: rows that
\* correlate with 1, with -1 and not at all, a constant row, rows with one
\* common user only.
MatrixOf(rows) ==
    [i \in 0..(Len(rows) - 1) |-> [j \in 0..(Len(rows[1]) - 1) |-> rows[i + 1][j + 1]]]

PredictMatrices ==
    { MatrixOf(<<<<4, 3, 5>>, <<2, N, 4>>, <<3, 5, 1>>, <<4, 3, 5>>>>),
      MatrixOf(<<<<5, 3, N>>, <<4, 4, 4>>, <<N, 2, 5>>, <<1, N, N>>>>),
      MatrixOf(<<<<5, 1, 3>>, <<1, 5, 3>>, <<5, 1, 3>>, <<2, 2, N>>>>),
      MatrixOf(<<<<1, 2, 4>>, <<2, 4, 5>>, <<5, 3, 1>>, <<3, 4, 5>>>>) }

\* A request for the user and the movie of every cell.
Requests(matrix) ==
    {<<<<j + 1, i + 1, 3>>>> : i \in DOMAIN matrix, j \in DOMAIN matrix[0]}

\* The state of a run with one process that is about to predict.
InitPredict ==
    /\ pc = "join"
    /\ error = ""
    /\ clock = 0
    /\ \E k \in 1..(MaxK + 1) :
          /\ config_file = [number_processes |-> 1, number_neighbours |-> k]
          /\ num_neighbours = k
    /\ config = config_file
    /\ num_processes = 1
    /\ utility_matrix \in PredictMatrices
    /\ train_set = TrainSetOf(utility_matrix)
    /\ test_set \in Requests(utility_matrix)
    /\ validation_set = <<>>
    /\ global_average = MeanRating(train_set)
    /\ users_bias = get_biases(utility_matrix, global_average)[1]
    /\ movies_bias = get_biases(utility_matrix, global_average)[2]
    /\ start_time = clock
    /\ total_time = Undefined
    /\ chunks = array_split(test_set, num_processes)
    /\ return_dict = <<>>
    /\ wstate = <<"running">>
    /\ windex = <<0>>
    /\ wresult = <<<<>>>>
    /\ joined = 0
    /\ results = NoList
    /\ rmse = Undefined
    /\ log = <<>>
    /\ UnboundLF

\* The process predicts and stores its result.
NextPredict ==
    \/ PredictStep
    \/ StoreStep

SpecPredict == InitPredict /\ [][NextPredict]_vars

\* ---------------------------------------------------------------- C15
\* The request of the run and what the process has made of it.
RequestUser == test_set[1][1] - 1

RequestMovie == test_set[1][2] - 1

SimilarityList == get_similarities(RequestUser, RequestMovie, utility_matrix)

Used == Neighbours(RequestUser, RequestMovie, utility_matrix, num_neighbours)

Predicted == Len(wresult) = 1 /\ Len(wresult[1]) = 1

PredictedRating == wresult[1][1][2]

Baseline(movie) == global_average + users_bias[RequestUser] + movies_bias[movie]

SimilaritySum == SumSeq([n \in 1..Len(Used) |-> Used[n][2]])

\* The sum over the neighbours of similarity times the deviation of the
\* rating of the neighbour from its own baseline.
WeightedDeviations ==
    SumSeq([n \in 1..Len(Used) |->
               Used[n][2] * (utility_matrix[Used[n][1]][RequestUser] * Scale
                             - Baseline(Used[n][1]))])

\* C15: the rating predicted for a request is the baseline global_average +
\* users_bias[user] + movies_bias[movie] when the similarity list is empty or
\* the similarities of the k neighbours sum to zero; otherwise it is the
\* baseline plus the weighted deviations divided by the sum of the
\* similarities.
C15_BaselineFallback ==
    Predicted =>
        PredictedRating =
            IF SimilarityList = <<>> \/ SimilaritySum = 0
            THEN Baseline(RequestMovie)
            ELSE Baseline(RequestMovie) + (WeightedDeviations \div SimilaritySum)

\* A request with neighbours whose similarities sum to zero has got the
\* baseline, which is not the global average.
C15_Witness ==
    /\ Predicted
    /\ Len(Used) >= 2
    /\ SimilaritySum = 0
    /\ PredictedRating = Baseline(RequestMovie)
    /\ PredictedRating # global_average

\* ---------------------------------------------------------------- C16
\* The users that rated both the movie i and the movie of the request.
CommonUsers(i) ==
    {u \in DOMAIN utility_matrix[0] :
        ~isnan(utility_matrix[i][u]) /\ ~isnan(utility_matrix[RequestMovie][u])}

\* The movies that qualify as neighbours.
Qualifying ==
    {i \in DOMAIN utility_matrix :
        /\ i # RequestMovie
        /\ ~isnan(utility_matrix[i][RequestUser])
        /\ Cardinality(CommonUsers(i)) >= 2}

\* The ratings of the movie i by its common users are all the same.
ConstantOver(i) ==
    \A u \in CommonUsers(i), v \in CommonUsers(i) : utility_matrix[i][u] = utility_matrix[i][v]

\* C16: the similarity list of a request has one entry for each movie that
\* is not the movie of the request, that the user of the request has rated
\* and that at least 2 users have rated together with the movie of the
\* request, and no other entry; every correlation in it is a number between
\* -1 and 1, and it is 0 where the correlation is not defined.
C16_SimilarityList ==
    Predicted =>
        /\ {SimilarityList[n][1] : n \in 1..Len(SimilarityList)} = Qualifying
        /\ Len(SimilarityList) = Cardinality(Qualifying)
        /\ \A n \in 1..Len(SimilarityList) :
              /\ ~isnan(SimilarityList[n][2])
              /\ SimilarityList[n][2] \in (-Scale)..Scale
              /\ (ConstantOver(SimilarityList[n][1]) \/ ConstantOver(RequestMovie)) =>
                    SimilarityList[n][2] = 0

\* A request with a movie the user has not rated, a movie with one common
\* user only and a movie with constant ratings, which is in the list with 0.
C16_Witness ==
    /\ Predicted
    /\ \E i \in (DOMAIN utility_matrix) \ {RequestMovie} : isnan(utility_matrix[i][RequestUser])
    /\ \E i \in (DOMAIN utility_matrix) \ {RequestMovie} :
          ~isnan(utility_matrix[i][RequestUser]) /\ Cardinality(CommonUsers(i)) < 2
    /\ \E n \in 1..Len(SimilarityList) :
          ConstantOver(SimilarityList[n][1]) /\ SimilarityList[n][2] = 0

\* ---------------------------------------------------------------- C17
\* The entries of the similarity list that are not among the neighbours.
Unused == {SimilarityList[n] : n \in 1..Len(SimilarityList)} \ {Used[n] : n \in 1..Len(Used)}

\* C17: the neighbours of a request are k entries of the similarity list, all
\* of them when it has fewer, by descending correlation and, for equal
\* correlations, ascending movie; no entry left out has a higher correlation
\* than a neighbour, or the same with a lower movie.
C17_TopKNeighbours ==
    Predicted =>
        /\ Len(Used) = IF num_neighbours < Len(SimilarityList)
                       THEN num_neighbours ELSE Len(SimilarityList)
        /\ {Used[n] : n \in 1..Len(Used)} \subseteq
              {SimilarityList[n] : n \in 1..Len(SimilarityList)}
        /\ \A m \in 1..Len(Used), n \in 1..Len(Used) :
              m < n => \/ Used[m][2] > Used[n][2]
                       \/ Used[m][2] = Used[n][2] /\ Used[m][1] < Used[n][1]
        /\ \A x \in Unused, n \in 1..Len(Used) :
              /\ ~(x[2] > Used[n][2])
              /\ ~(x[2] = Used[n][2] /\ x[1] < Used[n][1])

\* A request with more entries than neighbours, one of the entries left out
\* having the correlation of a neighbour.
C17_Witness ==
    /\ Predicted
    /\ Len(SimilarityList) > num_neighbours
    /\ \E x \in Unused, n \in 1..Len(Used) : x[2] = Used[n][2]

====
